---------------------------- MODULE Spec2Model ----------------------------
(***************************************************************************)
(* Ledger-mutation and fraud-decision pipeline of the digital wallet:      *)
(* local transfers, outgoing and incoming inter-system transfers, the      *)
(* validate callback, Stripe deposits, cashouts and payout callbacks.      *)
(*                                                                         *)
(* Money is counted in cents.  Every await on the database is one step of  *)
(* a request handler; a prisma.$transaction block is one atomic step.      *)
(* Two request handlers (Procs) run concurrently.  All modelled requests   *)
(* fall within one hour of one day, so every stored transaction lies in    *)
(* the velocity window and in the daily window of the fraud engine.  The    *)
(* wallets were funded on earlier days; the rows of those days lie outside *)
(* both windows, carry none of the references used here and are left out.  *)
(***************************************************************************)
EXTENDS Integers, Sequences, FiniteSets, TLC

VARIABLES
    balance,     \* wallet id -> balance in cents (Wallet.balance)
    txs,         \* the Transaction table, in insertion order
    pis,         \* the PaymentIntent table: stripePaymentId -> row
    payouts,     \* the Payout table, in insertion order
    iwlog,       \* number of OUTGOING InterWalletLog rows
    fraudRules,  \* the FraudRule table, in insertion order
    pc,          \* request handler -> position in its code
    req,         \* request handler -> its locals
    net,         \* request handler -> ledger effect its request has committed
    nreq,        \* number of requests started so far
    ncb,         \* number of callbacks started so far
    call         \* a library function called on its own: name, argument, result

\* The state of the store and of the request handlers.
store == <<balance, txs, pis, payouts, iwlog, fraudRules, pc, req, net, nreq, ncb>>

vars == <<balance, txs, pis, payouts, iwlog, fraudRules, pc, req, net, nreq, ncb, call>>

(***************************************************************************)
(* Bounds                                                                  *)
(***************************************************************************)
MaxReq == 2

\* The number of callbacks (validate, payout paid, payout failed) that the
\* partner system and Stripe send.
MaxCallback == 2

Procs == {"h1", "h2"}

\* The order in which free handlers are chosen.
Precedes(q, p) == q = "h1" /\ p = "h2"

(***************************************************************************)
(* Wallets and users                                                       *)
(***************************************************************************)
NoWallet == "none"

NoRef == <<>>

Wallets == {"wA", "wC", "wB", "wU", "wI", "wP"}

Owner(w) ==
    CASE w = "wA" -> "alice"
      [] w = "wC" -> "alice"
      [] w = "wB" -> "bob"
      [] w = "wU" -> "bob"
      [] w = "wI" -> "bob"
      [] w = "wP" -> "platform"

WalletCurrency(w) == IF w = "wU" THEN "USD" ELSE "EUR"

IsActive(w) == w # "wI"

\* Account age in days of a user (User.createdAt against now).
AccountAgeDays(u) == IF u = "alice" THEN 2 ELSE 30

Cents(euros) == euros * 100

InitBalance(w) ==
    CASE w = "wA" -> Cents(20000)
      [] w = "wB" -> Cents(150)
      [] OTHER    -> 0

\* prisma.wallet.findFirst({ where: { id, userId, isActive: true } })
FindOwnedActiveWallet(id, user) ==
    id \in Wallets /\ Owner(id) = user /\ IsActive(id)

\* prisma.wallet.findFirst({ where: { id, isActive: true } })
FindActiveWallet(id) == id \in Wallets /\ IsActive(id)

(***************************************************************************)
(* Platform fee                                                            *)
(***************************************************************************)
PLATFORM_FEE_RATE_PERCENT == 1

\* Math.round(x / 100) for an integer x: round half up (towards +infinity).
RoundDiv100(x) == (x + 50) \div 100

\* The amounts in cents, among those up to 250.00 and the whole-euro amounts,
\* for which the IEEE 754 double product amount * 0.01 * 100 of an amount of
\* x.y5 euros falls below the half cent it stands for: 14.5 * 0.01 * 100 is
\* 14.499999999999998.  For every other such amount the product rounds as the
\* exact value does.
DoubleProductBelowHalf == {1450, 10250, 10350, 21950, 24450}

\* The fee, in cents, of an amount in cents:
\* Math.round(amount * 0.01 * 100) / 100 euros, the product taken in doubles.
calculatePlatformFee(amount) ==
    IF amount \in DoubleProductBelowHalf
    THEN RoundDiv100(amount * PLATFORM_FEE_RATE_PERCENT) - 1
    ELSE RoundDiv100(amount * PLATFORM_FEE_RATE_PERCENT)

applyPlatformFee(amount) ==
    [netAmount |-> amount - calculatePlatformFee(amount),
     fee       |-> calculatePlatformFee(amount)]

\* The platform wallet: the first active wallet of platform@wallet.system.
getPlatformWallet == "wP"


(***************************************************************************)
(* The Transaction table                                                   *)
(***************************************************************************)
\* One Transaction row.  src/dst are NoWallet and ref is NoRef when null;
\* iw is isInterWallet, url is externalSystemUrl ("" when null), reason is
\* metadata.rejectionReason, pay is metadata.stripePaymentIntentId, payout is
\* metadata.payoutId (0 when absent).
NewTx(type, status, user, src, dst, amount, fee, score, iw, url, ref, executed) ==
    [type |-> type, status |-> status, user |-> user, src |-> src, dst |-> dst,
     amount |-> amount, fee |-> fee, score |-> score, iw |-> iw, url |-> url,
     ref |-> ref, executed |-> executed, reason |-> "", pay |-> "", payout |-> 0]

\* prisma.transaction.findUnique({ where: { interWalletRef } }): the row's
\* index, 0 when none.
FindTxByRef(T, ref) ==
    IF ref # NoRef /\ \E i \in DOMAIN T : T[i].ref = ref
    THEN CHOOSE i \in DOMAIN T : T[i].ref = ref
    ELSE 0

RECURSIVE SumAmounts(_, _)
SumAmounts(T, S) ==
    IF S = {} THEN 0
    ELSE LET i == CHOOSE j \in S : TRUE
         IN  T[i].amount + SumAmounts(T, S \ {i})

(***************************************************************************)
(* Fraud engine                                                            *)
(***************************************************************************)
\* prisma.transaction.count({ where: { userId, createdAt: { gte: since } } })
RecentCount(T, user) == Cardinality({i \in DOMAIN T : T[i].user = user})

\* prisma.transaction.aggregate: sum of today's amounts of the user's
\* SUCCESS, PENDING and PROCESSING transactions.
DailyTotal(T, user) ==
    SumAmounts(T, {i \in DOMAIN T : /\ T[i].user = user
                                    /\ T[i].status \in {"SUCCESS", "PENDING", "PROCESSING"}})

InterWalletSuccessCount(T, user) ==
    Cardinality({i \in DOMAIN T : T[i].user = user /\ T[i].iw /\ T[i].status = "SUCCESS"})

PreviousToSystem(T, user, url) ==
    Cardinality({i \in DOMAIN T : /\ T[i].user = user /\ T[i].iw
                                  /\ T[i].url = url /\ T[i].status = "SUCCESS"})

\* (condition.x as number) || d
OrDefault(v, d) == IF v = 0 THEN d ELSE v

\* One FraudRule row; a condition field that is absent is 0.
Rule(name, ruleType, maxAmount, maxTransactions, maxDaily, minAgeDays, score, action, priority) ==
    [name |-> name, ruleType |-> ruleType, maxAmount |-> maxAmount,
     maxTransactions |-> maxTransactions, maxDaily |-> maxDaily,
     minAgeDays |-> minAgeDays, score |-> score, action |-> action,
     priority |-> priority, isActive |-> TRUE]

\* The rules the seed script stores.
SeedRules ==
    << Rule("Montant tres eleve", "AMOUNT_LIMIT", 10000, 0, 0, 0, 100, "BLOCK", 100),
       Rule("Montant eleve", "AMOUNT_LIMIT", 5000, 0, 0, 0, 30, "FLAG", 90),
       Rule("Velocite haute", "VELOCITY", 0, 10, 0, 0, 25, "REVIEW", 80),
       Rule("Limite journaliere", "DAILY_LIMIT", 0, 0, 5000, 0, 35, "REVIEW", 70),
       Rule("Nouveau compte suspect", "NEW_ACCOUNT", 0, 0, 0, 7, 30, "REVIEW", 60) >>

\* Whether a stored rule triggers on a context.
applyRule(rule, ctx, T) ==
    CASE rule.ruleType = "AMOUNT_LIMIT" ->
             ctx.amount > Cents(OrDefault(rule.maxAmount, 10000))
      [] rule.ruleType = "VELOCITY" ->
             RecentCount(T, ctx.userId) >= OrDefault(rule.maxTransactions, 10)
      [] rule.ruleType = "DAILY_LIMIT" ->
             DailyTotal(T, ctx.userId) + ctx.amount > Cents(OrDefault(rule.maxDaily, 5000))
      [] rule.ruleType = "NEW_ACCOUNT" ->
             /\ AccountAgeDays(ctx.userId) < OrDefault(rule.minAgeDays, 7)
             /\ ctx.amount > Cents(500)
      [] rule.ruleType = "INTER_WALLET_SUSPICIOUS" ->
             /\ ctx.isInterWallet
             /\ InterWalletSuccessCount(T, ctx.userId) = 0
             /\ ctx.amount > Cents(200)
      [] OTHER -> FALSE

\* findMany({ where: { isActive: true }, orderBy: { priority: 'desc' } }):
\* the active rules, highest priority first, equal priorities in stored order.
RECURSIVE OrderByPriority(_, _)
OrderByPriority(rules, S) ==
    IF S = {} THEN <<>>
    ELSE LET best == CHOOSE i \in S :
                        \A j \in S : \/ rules[i].priority > rules[j].priority
                                     \/ (rules[i].priority = rules[j].priority /\ i <= j)
         IN  <<rules[best]>> \o OrderByPriority(rules, S \ {best})

ActiveRules(rules) ==
    OrderByPriority(rules, {i \in DOMAIN rules : rules[i].isActive})

Min(a, b) == IF a < b THEN a ELSE b

\* The loop over the stored rules, from rule i on: the running score, the
\* names of the triggered rules and whether a BLOCK rule ended the loop.
RECURSIVE EvalRules(_, _, _, _, _, _)
EvalRules(rules, i, score, applied, ctx, T) ==
    IF i > Len(rules)
    THEN [score |-> score, applied |-> applied, blocked |-> FALSE]
    ELSE IF applyRule(rules[i], ctx, T)
         THEN IF rules[i].action = "BLOCK"
              THEN [score |-> score + rules[i].score,
                    applied |-> Append(applied, rules[i].name), blocked |-> TRUE]
              ELSE EvalRules(rules, i + 1, score + rules[i].score,
                             Append(applied, rules[i].name), ctx, T)
         ELSE EvalRules(rules, i + 1, score, applied, ctx, T)

AppendIf(cond, seq, name) == IF cond THEN Append(seq, name) ELSE seq

\* A variant of applyBuiltInRules whose VERY_HIGH_AMOUNT rule starts at 10000.
applyBuiltInRulesFrom10000(ctx, T) ==
    LET high      == ctx.amount > Cents(5000)
        veryHigh  == ctx.amount >= Cents(10000)
        velocity  == RecentCount(T, ctx.userId) > 5
        daily     == DailyTotal(T, ctx.userId) + ctx.amount > Cents(10000)
        newAcct   == AccountAgeDays(ctx.userId) < 7 /\ ctx.amount > Cents(1000)
        newSystem == /\ ctx.isInterWallet /\ ctx.url # ""
                     /\ PreviousToSystem(T, ctx.userId, ctx.url) = 0
    IN  [score |-> (IF high THEN 30 ELSE 0) + (IF veryHigh THEN 50 ELSE 0)
                   + (IF velocity THEN 20 ELSE 0) + (IF daily THEN 40 ELSE 0)
                   + (IF newAcct THEN 25 ELSE 0) + (IF newSystem THEN 15 ELSE 0),
         applied |->
            AppendIf(newSystem,
              AppendIf(newAcct,
                AppendIf(daily,
                  AppendIf(velocity,
                    AppendIf(veryHigh,
                      AppendIf(high, <<>>, "HIGH_AMOUNT"),
                      "VERY_HIGH_AMOUNT"),
                    "HIGH_VELOCITY"),
                  "DAILY_LIMIT_EXCEEDED"),
                "NEW_ACCOUNT_HIGH_AMOUNT"),
              "NEW_EXTERNAL_SYSTEM")]

\* The built-in rule set, used when no rule is stored.
applyBuiltInRules(ctx, T) ==
    LET high      == ctx.amount > Cents(5000)
        veryHigh  == ctx.amount > Cents(10000)
        velocity  == RecentCount(T, ctx.userId) > 5
        daily     == DailyTotal(T, ctx.userId) + ctx.amount > Cents(10000)
        newAcct   == AccountAgeDays(ctx.userId) < 7 /\ ctx.amount > Cents(1000)
        newSystem == /\ ctx.isInterWallet /\ ctx.url # ""
                     /\ PreviousToSystem(T, ctx.userId, ctx.url) = 0
    IN  [score |-> (IF high THEN 30 ELSE 0) + (IF veryHigh THEN 50 ELSE 0)
                   + (IF velocity THEN 20 ELSE 0) + (IF daily THEN 40 ELSE 0)
                   + (IF newAcct THEN 25 ELSE 0) + (IF newSystem THEN 15 ELSE 0),
         applied |->
            AppendIf(newSystem,
              AppendIf(newAcct,
                AppendIf(daily,
                  AppendIf(velocity,
                    AppendIf(veryHigh,
                      AppendIf(high, <<>>, "HIGH_AMOUNT"),
                      "VERY_HIGH_AMOUNT"),
                    "HIGH_VELOCITY"),
                  "DAILY_LIMIT_EXCEEDED"),
                "NEW_ACCOUNT_HIGH_AMOUNT"),
              "NEW_EXTERNAL_SYSTEM")]

\* A variant of determineDecision whose REVIEW range starts above 50.
determineDecisionAbove50(score) ==
    IF score >= 80 THEN "BLOCKED"
    ELSE IF score > 50 THEN "REVIEW"
    ELSE "ACCEPTED"

determineDecision(score) ==
    IF score >= 80 THEN "BLOCKED"
    ELSE IF score >= 50 THEN "REVIEW"
    ELSE "ACCEPTED"

\* A variant of checkFraud in which a BLOCK rule only adds its score.
checkFraudBlockAddsScore(ctx, stored, T) ==
    LET rules  == ActiveRules(stored)
        looped == EvalRules(rules, 1, 0, <<>>, ctx, T)
    IN  [score |-> Min(looped.score, 100), decision |-> determineDecision(looped.score),
         appliedRules |-> looped.applied]

checkFraud(ctx, stored, T) ==
    LET rules   == ActiveRules(stored)
        looped  == EvalRules(rules, 1, 0, <<>>, ctx, T)
        builtIn == applyBuiltInRules(ctx, T)
        score   == IF Len(rules) = 0 THEN builtIn.score ELSE looped.score
        applied == IF Len(rules) = 0 THEN looped.applied \o builtIn.applied
                   ELSE looped.applied
    IN  IF looped.blocked
        THEN [score |-> Min(looped.score, 100), decision |-> "BLOCKED",
              appliedRules |-> looped.applied]
        ELSE [score |-> Min(score, 100), decision |-> determineDecision(score),
              appliedRules |-> applied]

FraudContext(user, amount, type, inter, url) ==
    [userId |-> user, amount |-> amount, type |-> type,
     isInterWallet |-> inter, url |-> url]

NoFraud == [score |-> 0, decision |-> "NONE", appliedRules |-> <<>>]

(***************************************************************************)
(* Signatures of the inter-system protocol                                 *)
(***************************************************************************)
\* What a request of the protocol carries and its signature covers.
Payload(ref, wallet, amount, status) ==
    [transactionRef |-> ref, destinationWalletId |-> wallet, amount |-> amount,
     status |-> status]

SIGNATURE_HEX_LENGTH == 64

\* HMAC-SHA256 of the serialized payload under the shared secret, in hex:
\* a value that determines the payload, 64 characters long.
generateSignature(payload) == [mac |-> payload, len |-> SIGNATURE_HEX_LENGTH]

\* A variant of verifySignature that compares the lengths only.
verifySignatureLengthOnly(payload, signature) ==
    IF signature.len # generateSignature(payload).len THEN "throws" ELSE "valid"

\* crypto.timingSafeEqual throws when the two buffers differ in length.
verifySignature(payload, signature) ==
    IF signature.len # generateSignature(payload).len THEN "throws"
    ELSE IF signature.mac = generateSignature(payload).mac THEN "valid"
    ELSE "invalid"

NoSig == [mac |-> Payload(NoRef, NoWallet, 0, ""), len |-> 0]

\* A signature header that is not 64 characters long.
ShortSig(payload) == [mac |-> payload, len |-> 12]

\* A signature computed over another payload (the amount was changed).
ForgedSig(payload) == generateSignature([payload EXCEPT !.amount = @ + 1])

(***************************************************************************)
(* Request handlers                                                        *)
(***************************************************************************)
\* The locals of a request handler.  res is the response it returned:
\* "ok" (success), "rejected" (a structured refusal), "blocked" (fraud),
\* "error" (an exception was caught and a generic failure returned),
\* "uncaught" (an exception left the entry point).  resScore is the fraud
\* score the response carries, -1 when it carries none.
NewReq(op, user, src, dst, amount, url, ref, arg, sig) ==
    [op |-> op, user |-> user, src |-> src, dst |-> dst, amount |-> amount,
     url |-> url, ref |-> ref, arg |-> arg, sig |-> sig,
     key |-> "", row |-> 0, fee |-> 0, fraud |-> NoFraud, tx |-> 0, res |-> "none",
     resScore |-> 0 - 1]

IdleReq == NewReq("none", "", NoWallet, NoWallet, 0, "", NoRef, "", NoSig)

ZeroDelta == [w \in Wallets |-> 0]

Credit(d, w, x) == [d EXCEPT ![w] = @ + x]

Debit(d, w, x) == [d EXCEPT ![w] = @ - x]

\* Commit the balance updates d (increments and decrements, per wallet).
Apply(p, d) ==
    /\ balance' = [w \in Wallets |-> balance[w] + d[w]]
    /\ net' = [net EXCEPT ![p] = [w \in Wallets |-> net[p][w] + d[w]]]

\* The handler returns its response.  (No step of a handler touches call.)
Finish(p, r, result) ==
    /\ pc' = [pc EXCEPT ![p] = "done"]
    /\ req' = [req EXCEPT ![p] = [r EXCEPT !.res = result]]
    /\ UNCHANGED call

Goto(p, r, label) ==
    /\ pc' = [pc EXCEPT ![p] = label]
    /\ req' = [req EXCEPT ![p] = r]
    /\ UNCHANGED call

\* A database call throws (store unavailable, serialization failure): the
\* call writes nothing and the exception reaches the entry point's catch.
Throws(p) ==
    /\ Finish(p, req[p], "error")
    /\ UNCHANGED <<balance, txs, pis, payouts, iwlog, fraudRules, net, nreq, ncb>>

\* A database call of handleLocalTransfer or handleInterWalletTransfer
\* throws: POST returns their promise without awaiting it, so its catch
\* block is not in effect and the exception leaves the entry point.
Escapes(p) ==
    /\ Finish(p, req[p], "uncaught")
    /\ UNCHANGED <<balance, txs, pis, payouts, iwlog, fraudRules, net, nreq, ncb>>

\* A request arrives and is given to the first free handler; the handler's
\* previous response stays visible until then.
AtRest(p) == pc[p] \in {"idle", "done"}

Free(p) ==
    /\ AtRest(p)
    /\ \A q \in Procs : Precedes(q, p) => ~AtRest(q)

Begin(p) ==
    /\ Free(p)
    /\ nreq < MaxReq
    /\ nreq' = nreq + 1
    /\ net' = [net EXCEPT ![p] = ZeroDelta]
    /\ UNCHANGED ncb

BeginCallback(p) ==
    /\ Free(p)
    /\ ncb < MaxCallback
    /\ ncb' = ncb + 1
    /\ net' = [net EXCEPT ![p] = ZeroDelta]
    /\ UNCHANGED nreq

StoreInit ==
    /\ balance = [w \in Wallets |-> InitBalance(w)]
    /\ txs = <<>>
    /\ pis = [id \in {"pi_1"} |-> [exists |-> FALSE, status |-> "", tx |-> 0]]
    /\ payouts = <<>>
    /\ iwlog = 0
    /\ fraudRules \in {<<>>, SeedRules}
    /\ pc = [p \in Procs |-> "idle"]
    /\ req = [p \in Procs |-> IdleReq]
    /\ net = [p \in Procs |-> ZeroDelta]
    /\ nreq = 0
    /\ ncb = 0

\* No library function is called on its own while requests are served.
NoCall == [fn |-> "none", arg |-> 0, done |-> FALSE, result |-> 0]

Init == StoreInit /\ call = NoCall

(***************************************************************************)
(* POST /api/transactions                                                  *)
(***************************************************************************)
ExternalUrl == "https://bank-b.example"

\* The transfer requests of the model: user, source wallet, destination
\* wallet (NoWallet for an inter-system transfer) and amount.
TransferInputs ==
    { NewReq("transfer", "alice", "wA", "wB", Cents(100), "", NoRef, "", NoSig),
      NewReq("transfer", "alice", "wA", "wB", Cents(6000), "", NoRef, "", NoSig),
      NewReq("transfer", "alice", "wA", "wB", Cents(15000), "", NoRef, "", NoSig),
      NewReq("transfer", "bob", "wB", "wA", Cents(100), "", NoRef, "", NoSig),
      NewReq("transfer", "alice", "wA", "wA", Cents(100), "", NoRef, "", NoSig),
      NewReq("transfer", "alice", "wA", "wA", Cents(15000), "", NoRef, "", NoSig),
      NewReq("transfer", "alice", "wA", "wC", Cents(100), "", NoRef, "", NoSig),
      NewReq("transfer", "alice", "wA", "wU", Cents(100), "", NoRef, "", NoSig),
      NewReq("transfer", "alice", "wA", "wI", Cents(100), "", NoRef, "", NoSig),
      NewReq("transfer", "alice", "wB", "wA", Cents(100), "", NoRef, "", NoSig),
      NewReq("inter", "alice", "wA", NoWallet, Cents(100), ExternalUrl, NoRef, "", NoSig),
      NewReq("inter", "alice", "wA", NoWallet, Cents(6000), ExternalUrl, NoRef, "", NoSig) }

\* amount + platformFee
TotalDebit(amount) == amount + calculatePlatformFee(amount)

\* POST, lines 106-152: session, body, source wallet lookup, balance check.
TransferStart(p) ==
    \E r \in TransferInputs :
        /\ Begin(p)
        /\ IF ~FindOwnedActiveWallet(r.src, r.user)
           THEN Finish(p, r, "rejected")
           ELSE IF balance[r.src] < TotalDebit(r.amount)
           THEN Finish(p, r, "rejected")
           ELSE Goto(p, [r EXCEPT !.fee = calculatePlatformFee(r.amount)], "tr_fraud")
        /\ UNCHANGED <<balance, txs, pis, payouts, iwlog, fraudRules>>

TransferType(r) == IF r.op = "inter" THEN "INTER_WALLET" ELSE "TRANSFER"

\* A variant of TransferFraud without the BLOCKED branch.
TransferFraudWithoutBlock(p) ==
    /\ pc[p] = "tr_fraud"
    /\ LET r  == req[p]
           fr == checkFraud(FraudContext(r.user, r.amount, TransferType(r),
                                         r.op = "inter", r.url), fraudRules, txs)
           r2 == [r EXCEPT !.fraud = fr]
       IN  IF r.op = "inter" THEN Goto(p, r2, "iw_debit")
           ELSE Goto(p, r2, "lt_commit")
    /\ UNCHANGED <<balance, txs, pis, payouts, iwlog, fraudRules, net, nreq, ncb>>

\* POST, lines 154-203: the fraud check and the dispatch on its decision.
TransferFraud(p) ==
    /\ pc[p] = "tr_fraud"
    /\ LET r  == req[p]
           fr == checkFraud(FraudContext(r.user, r.amount, TransferType(r),
                                         r.op = "inter", r.url), fraudRules, txs)
           r2 == [r EXCEPT !.fraud = fr]
       IN  IF fr.decision = "BLOCKED" THEN Goto(p, r2, "tr_blocked")
           ELSE IF r.op = "inter" THEN Goto(p, r2, "iw_debit")
           ELSE Goto(p, r2, "lt_commit")
    /\ UNCHANGED <<balance, txs, pis, payouts, iwlog, fraudRules, net, nreq, ncb>>

\* POST, lines 166-195: the BLOCKED transaction is stored, nothing is moved.
BlockedTx(r) ==
    NewTx(TransferType(r), "BLOCKED", r.user, r.src, r.dst, r.amount, 0,
          r.fraud.score, r.op = "inter", r.url, NoRef, FALSE)

TransferBlocked(p) ==
    /\ pc[p] = "tr_blocked"
    /\ \/ /\ txs' = Append(txs, BlockedTx(req[p]))
          /\ Finish(p, [req[p] EXCEPT !.tx = Len(txs) + 1,
                                       !.resScore = req[p].fraud.score], "blocked")
          /\ UNCHANGED <<balance, pis, payouts, iwlog, fraudRules, net, nreq, ncb>>
       \/ Throws(p)

(***************************************************************************)
(* handleLocalTransfer                                                     *)
(***************************************************************************)
\* status = fraudResult.decision === 'REVIEW' ? 'REVIEW' : 'SUCCESS'
LocalStatus(r) == IF r.fraud.decision = "REVIEW" THEN "REVIEW" ELSE "SUCCESS"

\* A variant of LocalTransferDelta in which the fee leaves the source but
\* never reaches the platform wallet.
LocalTransferDeltaFeeLost(r) ==
    IF LocalStatus(r) = "SUCCESS"
    THEN Credit(Debit(ZeroDelta, r.src, r.amount + r.fee), r.dst, r.amount)
    ELSE Debit(ZeroDelta, r.src, r.amount + r.fee)

\* The balance updates of the prisma.$transaction block, lines 275-294.
LocalTransferDelta(r) ==
    IF LocalStatus(r) = "SUCCESS"
    THEN Credit(Credit(Debit(ZeroDelta, r.src, r.amount + r.fee), r.dst, r.amount),
                getPlatformWallet, r.fee)
    ELSE Debit(ZeroDelta, r.src, r.amount + r.fee)

\* A variant of LocalTransferTx that stamps executedAt on every row.
LocalTransferTxAlwaysExecuted(r) ==
    NewTx("TRANSFER", LocalStatus(r), r.user, r.src, r.dst, r.amount, r.fee,
          r.fraud.score, FALSE, "", NoRef, TRUE)

\* The Transaction row of the block, lines 297-315.
LocalTransferTx(r) ==
    NewTx("TRANSFER", LocalStatus(r), r.user, r.src, r.dst, r.amount, r.fee,
          r.fraud.score, FALSE, "", NoRef, LocalStatus(r) = "SUCCESS")

LocalTransferCommit(p) ==
    /\ pc[p] = "lt_commit"
    /\ LET r == req[p]
       IN  \/ /\ \/ ~FindActiveWallet(r.dst)
                 \/ r.dst = r.src
                 \/ WalletCurrency(r.dst) # WalletCurrency(r.src)
              /\ Finish(p, r, "rejected")
              /\ UNCHANGED <<balance, txs, pis, payouts, iwlog, fraudRules, net, nreq, ncb>>
           \/ /\ FindActiveWallet(r.dst)
              /\ r.dst # r.src
              /\ WalletCurrency(r.dst) = WalletCurrency(r.src)
              /\ Apply(p, LocalTransferDelta(r))
              /\ txs' = Append(txs, LocalTransferTx(r))
              /\ Finish(p, [r EXCEPT !.tx = Len(txs) + 1], "ok")
              /\ UNCHANGED <<pis, payouts, iwlog, fraudRules, nreq, ncb>>
           \/ /\ FindActiveWallet(r.dst)
              /\ r.dst # r.src
              /\ WalletCurrency(r.dst) = WalletCurrency(r.src)
              /\ Escapes(p)

(***************************************************************************)
(* handleInterWalletTransfer and sendInterWalletTransfer                   *)
(***************************************************************************)
SetTx(T, i, row) == [T EXCEPT ![i] = row]

\* Lines 366-377: debit the source, credit the platform wallet.
InterDebitDelta(r) ==
    Credit(Debit(ZeroDelta, r.src, r.amount + r.fee), getPlatformWallet, r.fee)

InterDebit(p) ==
    /\ pc[p] = "iw_debit"
    /\ \/ /\ Apply(p, InterDebitDelta(req[p]))
          /\ Goto(p, req[p], "iw_create")
          /\ UNCHANGED <<txs, pis, payouts, iwlog, fraudRules, nreq, ncb>>
       \/ Escapes(p)

\* A variant of InterPendingTx that records a REVIEW decision as the status.
InterPendingTxInReview(r) ==
    NewTx("INTER_WALLET", IF r.fraud.decision = "REVIEW" THEN "REVIEW" ELSE "PENDING",
          r.user, r.src, NoWallet, r.amount, r.fee, r.fraud.score, TRUE, r.url,
          NoRef, FALSE)

\* Lines 380-399: the PENDING transaction.
InterPendingTx(r) ==
    NewTx("INTER_WALLET", "PENDING", r.user, r.src, NoWallet, r.amount, r.fee,
          r.fraud.score, TRUE, r.url, NoRef, FALSE)

InterCreate(p) ==
    /\ pc[p] = "iw_create"
    /\ \/ /\ txs' = Append(txs, InterPendingTx(req[p]))
          /\ Goto(p, [req[p] EXCEPT !.tx = Len(txs) + 1], "iw_send")
          /\ UNCHANGED <<balance, pis, payouts, iwlog, fraudRules, net, nreq, ncb>>
       \/ Escapes(p)

\* What the remote call does: the remote system accepts or refuses, its
\* answer is no JSON, the network fails, or the log insert throws after an
\* answer was received.
RemoteOutcomes ==
    {"accepted", "refused", "unparsable", "network", "accepted_logfault"}

\* generateTransactionRef: a fresh reference of this system.
generateTransactionRef(n) == <<"Groupe6-Wallet", n>>

\* sendInterWalletTransfer returns success only for an accepted, logged call.
SendSucceeds(outcome) == outcome = "accepted"

\* sendInterWalletTransfer writes its InterWalletLog row after response.json().
SendLogs(outcome) == outcome \in {"accepted", "refused"}

InterSend(p) ==
    /\ pc[p] = "iw_send"
    /\ \E outcome \in RemoteOutcomes :
          /\ iwlog' = IF SendLogs(outcome) THEN iwlog + 1 ELSE iwlog
          /\ IF SendSucceeds(outcome)
             THEN Goto(p, [req[p] EXCEPT !.arg = "sent",
                                         !.ref = generateTransactionRef(req[p].tx)],
                       "iw_mark")
             ELSE Goto(p, [req[p] EXCEPT !.arg = "send failed"], "iw_rollback")
    /\ UNCHANGED <<balance, txs, pis, payouts, fraudRules, net, nreq, ncb>>

\* Lines 413-419.
InterMarkProcessing(p) ==
    /\ pc[p] = "iw_mark"
    /\ \/ /\ txs' = SetTx(txs, req[p].tx,
                          [txs[req[p].tx] EXCEPT !.status = "PROCESSING",
                                                 !.ref = req[p].ref])
          /\ Finish(p, req[p], "ok")
          /\ UNCHANGED <<balance, pis, payouts, iwlog, fraudRules, net, nreq, ncb>>
       \/ Escapes(p)

\* Lines 434-445: refund the source, debit the platform wallet.
InterRollbackDelta(r) ==
    Debit(Credit(ZeroDelta, r.src, r.amount + r.fee), getPlatformWallet, r.fee)

InterRollback(p) ==
    /\ pc[p] = "iw_rollback"
    /\ \/ /\ Apply(p, InterRollbackDelta(req[p]))
          /\ Goto(p, req[p], "iw_fail")
          /\ UNCHANGED <<txs, pis, payouts, iwlog, fraudRules, nreq, ncb>>
       \/ Escapes(p)

\* Lines 448-457.
InterMarkFailed(p) ==
    /\ pc[p] = "iw_fail"
    /\ \/ /\ txs' = SetTx(txs, req[p].tx, [txs[req[p].tx] EXCEPT !.status = "FAILED"])
          /\ Finish(p, req[p], "rejected")
          /\ UNCHANGED <<balance, pis, payouts, iwlog, fraudRules, net, nreq, ncb>>
       \/ Escapes(p)

(***************************************************************************)
(* processCashout                                                          *)
(***************************************************************************)
CashoutInputs ==
    { NewReq("cashout", "alice", "wA", NoWallet, Cents(100), "", NoRef, "", NoSig),
      NewReq("cashout", "alice", "wA", NoWallet, Cents(6000), "", NoRef, "", NoSig),
      NewReq("cashout", "bob", "wB", NoWallet, Cents(100), "", NoRef, "", NoSig),
      NewReq("cashout", "alice", "wB", NoWallet, Cents(100), "", NoRef, "", NoSig) }

\* if (amount > 500)
CASHOUT_FRAUD_THRESHOLD == 500

\* Lines 156-197, up to the fraud check.
CashoutStart(p) ==
    \E r \in CashoutInputs :
        /\ Begin(p)
        /\ IF ~FindOwnedActiveWallet(r.src, r.user)
           THEN Finish(p, r, "rejected")
           ELSE IF balance[r.src] < TotalDebit(r.amount)
           THEN Finish(p, r, "rejected")
           ELSE IF r.amount > Cents(CASHOUT_FRAUD_THRESHOLD)
           THEN Goto(p, [r EXCEPT !.fee = calculatePlatformFee(r.amount)], "co_fraud")
           ELSE Goto(p, [r EXCEPT !.fee = calculatePlatformFee(r.amount)], "co_commit")
        /\ UNCHANGED <<balance, txs, pis, payouts, iwlog, fraudRules>>

\* Lines 182-197.
CashoutFraud(p) ==
    /\ pc[p] = "co_fraud"
    /\ LET r  == req[p]
           fr == checkFraud(FraudContext(r.user, r.amount, "WITHDRAWAL", FALSE, ""),
                            fraudRules, txs)
       IN  IF fr.decision = "BLOCKED"
           THEN Finish(p, [r EXCEPT !.fraud = fr], "blocked")
           ELSE Goto(p, [r EXCEPT !.fraud = fr], "co_commit")
    /\ UNCHANGED <<balance, txs, pis, payouts, iwlog, fraudRules, net, nreq, ncb>>

\* A variant of CashoutDelta that debits the amount without the fee.
CashoutDeltaAmountOnly(r) ==
    Credit(Debit(ZeroDelta, r.src, r.amount), getPlatformWallet, r.fee)

\* Lines 224-241: debit the wallet, credit the platform wallet.
CashoutDelta(r) ==
    Credit(Debit(ZeroDelta, r.src, r.amount + r.fee), getPlatformWallet, r.fee)

\* A variant of CashoutPayout that stores the identifier of a Stripe payout.
CashoutPayoutWithStripeId(r, txid) ==
    [stripePayoutId |-> "po_1", wallet |-> r.src, amount |-> r.amount,
     status |-> "pending", tx |-> txid]

\* Lines 244-258 and 281-284: the Payout row; stripePayoutId is null ("").
CashoutPayout(r, txid) ==
    [stripePayoutId |-> "", wallet |-> r.src, amount |-> r.amount,
     status |-> "pending", tx |-> txid]

\* Lines 261-278.
CashoutTx(r, payoutId) ==
    [NewTx("WITHDRAWAL", "PENDING", r.user, r.src, NoWallet, r.amount, r.fee,
           0, FALSE, "", NoRef, FALSE) EXCEPT !.payout = payoutId]

\* Lines 222-311: the prisma.$transaction block.
CashoutCommit(p) ==
    /\ pc[p] = "co_commit"
    /\ \/ /\ Apply(p, CashoutDelta(req[p]))
          /\ txs' = Append(txs, CashoutTx(req[p], Len(payouts) + 1))
          /\ payouts' = Append(payouts, CashoutPayout(req[p], Len(txs) + 1))
          /\ Finish(p, [req[p] EXCEPT !.tx = Len(txs) + 1], "ok")
          /\ UNCHANGED <<pis, iwlog, fraudRules, nreq, ncb>>
       \/ Throws(p)

(***************************************************************************)
(* processPayoutSuccess and processPayoutFailed                            *)
(***************************************************************************)
\* The identifiers of the payouts Stripe reports on.
StripePayoutIds == {"po_1"}

PayoutInputs ==
    { [NewReq(op, "", NoWallet, NoWallet, 0, "", NoRef, "", NoSig) EXCEPT !.key = id] :
        op \in {"payoutPaid", "payoutFailed"}, id \in StripePayoutIds }

\* prisma.payout.findUnique({ where: { stripePayoutId } }): the row's index,
\* 0 when none.
FindPayout(P, id) ==
    IF \E k \in DOMAIN P : P[k].stripePayoutId = id
    THEN CHOOSE k \in DOMAIN P : P[k].stripePayoutId = id
    ELSE 0

\* transaction?.platformFee ? Number(transaction.platformFee) : 0
PayoutFee(T, payout) == IF payout.tx # 0 THEN T[payout.tx].fee ELSE 0

\* Lines 415-436: refund the wallet, debit the platform wallet.
PayoutFailedDelta(payout, fee) ==
    IF fee > 0
    THEN Debit(Credit(ZeroDelta, payout.wallet, payout.amount + fee), getPlatformWallet, fee)
    ELSE Credit(ZeroDelta, payout.wallet, payout.amount + fee)

SetTxStatus(T, i, status, executed) ==
    IF i = 0 THEN T
    ELSE [T EXCEPT ![i] = [@ EXCEPT !.status = status,
                                    !.executed = IF executed THEN TRUE ELSE @]]

\* Both callbacks: the payout lookup with the already-processed test, then
\* the prisma.$transaction block of the callback.
PayoutCallback(p) ==
    IF AtRest(p)
    THEN \E r \in PayoutInputs :
            /\ BeginCallback(p)
            /\ LET k == FindPayout(payouts, r.key)
               IN  IF k = 0 THEN Finish(p, r, "rejected")
                   ELSE IF r.op = "payoutPaid"
                   THEN IF payouts[k].status = "paid" THEN Finish(p, r, "ok")
                        ELSE Goto(p, [r EXCEPT !.row = k], "po_paid")
                   ELSE IF payouts[k].status = "failed" THEN Finish(p, r, "ok")
                        ELSE Goto(p, [r EXCEPT !.row = k,
                                               !.fee = PayoutFee(txs, payouts[k])],
                                  "po_failed")
            /\ UNCHANGED <<balance, txs, pis, payouts, iwlog, fraudRules>>
    ELSE IF pc[p] = "po_paid"
    THEN /\ payouts' = [payouts EXCEPT ![req[p].row].status = "paid"]
         /\ txs' = SetTxStatus(txs, payouts[req[p].row].tx, "SUCCESS", TRUE)
         /\ Finish(p, req[p], "ok")
         /\ UNCHANGED <<balance, pis, iwlog, fraudRules, net, nreq, ncb>>
    ELSE IF pc[p] = "po_failed"
    THEN /\ Apply(p, PayoutFailedDelta(payouts[req[p].row], req[p].fee))
         /\ payouts' = [payouts EXCEPT ![req[p].row].status = "failed"]
         /\ txs' = SetTxStatus(txs, payouts[req[p].row].tx, "FAILED", FALSE)
         /\ Finish(p, req[p], "ok")
         /\ UNCHANGED <<pis, iwlog, fraudRules, nreq, ncb>>
    ELSE FALSE

(***************************************************************************)
(* POST /api/payments/webhook and processDeposit                           *)
(***************************************************************************)
\* The metadata of the Checkout Session of a payment: who pays, which
\* wallet is credited, the amount to credit.
DepositMeta(id) == [user |-> "alice", wallet |-> "wA", amount |-> Cents(100)]

\* A webhook delivery: the event type, the payment it is about and the
\* status Stripe reports for the payment when it is retrieved.
WebhookInputs ==
    { [NewReq(ev, "", NoWallet, NoWallet, 0, "", NoRef, st, NoSig) EXCEPT !.key = "pi_1"] :
        ev \in {"checkout.session.completed", "payment_intent.succeeded"},
        st \in {"succeeded", "processing"} }
    \cup { [NewReq("payment_intent.payment_failed", "", NoWallet, NoWallet, 0, "",
                   NoRef, "processing", NoSig) EXCEPT !.key = "pi_1"] }

\* Webhook, lines 46-59, 100-104 and 124-135.
WebhookStart(p) ==
    \E r \in WebhookInputs :
        /\ Begin(p)
        /\ IF r.op = "checkout.session.completed"
           THEN /\ IF pis[r.key].exists THEN Goto(p, r, "dep_read")
                   ELSE Goto(p, r, "wh_create")
                /\ pis' = pis
           ELSE IF r.op = "payment_intent.succeeded"
           THEN Goto(p, r, "dep_read") /\ pis' = pis
           ELSE /\ pis' = IF pis[r.key].exists
                          THEN [pis EXCEPT ![r.key].status = "failed"] ELSE pis
                /\ Finish(p, r, "ok")
        /\ UNCHANGED <<balance, txs, payouts, iwlog, fraudRules>>

\* Webhook, lines 61-76: stripePaymentId is unique, a second insert throws.
WebhookCreateIntent(p) ==
    /\ pc[p] = "wh_create"
    /\ \/ /\ ~pis[req[p].key].exists
          /\ pis' = [pis EXCEPT ![req[p].key] =
                        [exists |-> TRUE, status |-> "pending", tx |-> 0]]
          /\ Goto(p, req[p], "dep_read")
          /\ UNCHANGED <<balance, txs, payouts, iwlog, fraudRules, net, nreq, ncb>>
       \/ Throws(p)

\* processDeposit, lines 18-45, without the update of line 40.
DepositRead(p) ==
    /\ pc[p] = "dep_read"
    /\ LET r == req[p]
       IN  IF ~pis[r.key].exists THEN Finish(p, r, "rejected")
           ELSE IF pis[r.key].status = "succeeded"
           THEN Finish(p, [r EXCEPT !.tx = pis[r.key].tx], "ok")
           ELSE IF r.arg # "succeeded" THEN Goto(p, r, "dep_failed")
           ELSE Goto(p, [r EXCEPT !.amount = DepositMeta(r.key).amount,
                                  !.dst = DepositMeta(r.key).wallet,
                                  !.user = DepositMeta(r.key).user,
                                  !.fee = calculatePlatformFee(DepositMeta(r.key).amount)],
                     "dep_commit")
    /\ UNCHANGED <<balance, txs, pis, payouts, iwlog, fraudRules, net, nreq, ncb>>

\* processDeposit, lines 40-44.
DepositMarkFailed(p) ==
    /\ pc[p] = "dep_failed"
    /\ \/ /\ pis' = [pis EXCEPT ![req[p].key].status = "failed"]
          /\ Finish(p, req[p], "rejected")
          /\ UNCHANGED <<balance, txs, payouts, iwlog, fraudRules, net, nreq, ncb>>
       \/ Throws(p)

\* A variant of DepositDelta that takes the fee out of the wallet's credit.
DepositDeltaNetOfFee(r) ==
    Credit(Credit(ZeroDelta, r.dst, r.amount - r.fee), getPlatformWallet, r.fee)

\* processDeposit, lines 57-74: credit the wallet with the full amount and
\* the platform wallet with the fee.
DepositDelta(r) == Credit(Credit(ZeroDelta, r.dst, r.amount), getPlatformWallet, r.fee)

\* Lines 77-93.
DepositTx(r) ==
    [NewTx("DEPOSIT", "SUCCESS", r.user, NoWallet, r.dst, r.amount, r.fee,
           0, FALSE, "", NoRef, TRUE) EXCEPT !.pay = r.key]

\* processDeposit, lines 55-129: the prisma.$transaction block.
DepositCommit(p) ==
    /\ pc[p] = "dep_commit"
    /\ \/ /\ Apply(p, DepositDelta(req[p]))
          /\ txs' = Append(txs, DepositTx(req[p]))
          /\ pis' = [pis EXCEPT ![req[p].key] =
                        [exists |-> TRUE, status |-> "succeeded", tx |-> Len(txs) + 1]]
          /\ Finish(p, [req[p] EXCEPT !.tx = Len(txs) + 1], "ok")
          /\ UNCHANGED <<payouts, iwlog, fraudRules, nreq, ncb>>
       \/ Throws(p)

(***************************************************************************)
(* POST /api/inter-wallet/transfer: validateIncomingTransfer and           *)
(* processIncomingTransfer                                                 *)
(***************************************************************************)
RemoteSystemUrl == "https://bank-b.example"

RemoteRef == <<"BankB", 1>>

IncomingPayloads ==
    { Payload(RemoteRef, "wB", Cents(50), ""),
      Payload(RemoteRef, "wB", 0 - Cents(200), ""),
      Payload(RemoteRef, "wI", Cents(50), ""),
      Payload(RemoteRef, "nope", Cents(50), "") }

IncomingReq(pl, sig) ==
    NewReq("incoming", "", NoWallet, pl.destinationWalletId, pl.amount,
           RemoteSystemUrl, pl.transactionRef, "", sig)

IncomingInputs ==
    { IncomingReq(pl, generateSignature(pl)) : pl \in IncomingPayloads }
    \cup { IncomingReq(Payload(RemoteRef, "wB", Cents(50), ""),
                       ForgedSig(Payload(RemoteRef, "wB", Cents(50), ""))),
           IncomingReq(Payload(RemoteRef, "wB", Cents(50), ""),
                       ShortSig(Payload(RemoteRef, "wB", Cents(50), ""))) }

\* validateIncomingTransfer: "valid", an error, or "throws".
validateIncomingTransfer(r, T) ==
    LET v == verifySignature(Payload(r.ref, r.dst, r.amount, ""), r.sig)
    IN  IF v = "throws" THEN "throws"
        ELSE IF v = "invalid" THEN "Invalid signature"
        ELSE IF r.dst \notin Wallets THEN "Destination wallet not found"
        ELSE IF ~IsActive(r.dst) THEN "Destination wallet is inactive"
        ELSE IF FindTxByRef(T, r.ref) # 0 THEN "Transaction already processed"
        ELSE "valid"

\* Route, lines 102-150.
IncomingStart(p) ==
    \E r \in IncomingInputs :
        /\ Begin(p)
        /\ LET v == validateIncomingTransfer(r, txs)
           IN  IF v = "throws" THEN Finish(p, r, "error")
               ELSE IF v # "valid" THEN Finish(p, r, "rejected")
               ELSE Goto(p, r, "in_commit")
        /\ UNCHANGED <<balance, txs, pis, payouts, iwlog, fraudRules>>

\* A variant of RefIsFree for a table without the unique index.
RefIsFreeWithoutIndex(T, ref) == TRUE

\* The unique index on Transaction.interWalletRef admits the insert.
RefIsFree(T, ref) == FindTxByRef(T, ref) = 0

\* processIncomingTransfer, lines 226-241.
IncomingTx(r) ==
    NewTx("INTER_WALLET", "SUCCESS", Owner(r.dst), NoWallet, r.dst, r.amount, 0,
          0, TRUE, r.url, r.ref, TRUE)

\* A variant of IncomingDelta that takes the platform fee out of the credit.
IncomingDeltaNetOfFee(r) ==
    Credit(Credit(ZeroDelta, r.dst, applyPlatformFee(r.amount).netAmount),
           getPlatformWallet, applyPlatformFee(r.amount).fee)

\* processIncomingTransfer, lines 244-251.
IncomingDelta(r) == Credit(ZeroDelta, r.dst, r.amount)

\* processIncomingTransfer: the prisma.$transaction block, or its failure.
IncomingCommit(p) ==
    /\ pc[p] = "in_commit"
    /\ \/ /\ RefIsFree(txs, req[p].ref)
          /\ txs' = Append(txs, IncomingTx(req[p]))
          /\ Apply(p, IncomingDelta(req[p]))
          /\ Finish(p, [req[p] EXCEPT !.tx = Len(txs) + 1], "ok")
          /\ UNCHANGED <<pis, payouts, iwlog, fraudRules, nreq, ncb>>
       \/ Throws(p)

(***************************************************************************)
(* POST /api/inter-wallet/validate                                         *)
(***************************************************************************)
UnknownRef == <<"BankB", 0>>

\* The references a validate callback may name: those stored, and one that
\* is not.
KnownRefs(T) == {T[i].ref : i \in DOMAIN T} \ {NoRef}

ValidateReq(pl, sig) ==
    NewReq("validate", "", NoWallet, NoWallet, 0, RemoteSystemUrl,
           pl.transactionRef, pl.status, sig)

ValidateInputs(T) ==
    { ValidateReq(Payload(ref, NoWallet, 0, st), generateSignature(Payload(ref, NoWallet, 0, st))) :
        ref \in KnownRefs(T), st \in {"ACCEPTED", "REJECTED"} }
    \cup { ValidateReq(Payload(UnknownRef, NoWallet, 0, "REJECTED"),
                       generateSignature(Payload(UnknownRef, NoWallet, 0, "REJECTED"))) }
    \cup { ValidateReq(Payload(ref, NoWallet, 0, "REJECTED"),
                       ForgedSig(Payload(ref, NoWallet, 0, "REJECTED"))) : ref \in KnownRefs(T) }
    \cup { ValidateReq(Payload(ref, NoWallet, 0, "REJECTED"),
                       ShortSig(Payload(ref, NoWallet, 0, "REJECTED"))) : ref \in KnownRefs(T) }

\* Lines 8-50 and the dispatch of lines 53 and 80.
ValidateStart(p) ==
    \E r \in ValidateInputs(txs) :
        /\ BeginCallback(p)
        /\ LET v == verifySignature(Payload(r.ref, NoWallet, 0, r.arg), r.sig)
               i == FindTxByRef(txs, r.ref)
           IN  IF v = "throws" THEN Finish(p, r, "error")
               ELSE IF v = "invalid" THEN Finish(p, r, "rejected")
               ELSE IF i = 0 THEN Finish(p, r, "rejected")
               ELSE IF r.arg = "ACCEPTED" THEN Goto(p, [r EXCEPT !.tx = i], "va_accept")
               ELSE IF txs[i].src # NoWallet
               THEN Goto(p, [r EXCEPT !.tx = i, !.src = txs[i].src,
                                      !.amount = txs[i].amount], "va_refund")
               ELSE Goto(p, [r EXCEPT !.tx = i], "va_fail")
        /\ UNCHANGED <<balance, txs, pis, payouts, iwlog, fraudRules>>

\* Lines 54-60.
ValidateAccept(p) ==
    /\ pc[p] = "va_accept"
    /\ \/ /\ txs' = SetTxStatus(txs, req[p].tx, "SUCCESS", TRUE)
          /\ Finish(p, req[p], "ok")
          /\ UNCHANGED <<balance, pis, payouts, iwlog, fraudRules, net, nreq, ncb>>
       \/ Throws(p)

\* A variant of ValidateRefundDelta that gives the platform fee back as well.
ValidateRefundDeltaWithFee(r) ==
    Debit(Credit(ZeroDelta, r.src, r.amount + calculatePlatformFee(r.amount)),
          getPlatformWallet, calculatePlatformFee(r.amount))

\* Lines 80-85: increment the source wallet by Number(transaction.amount).
ValidateRefundDelta(r) == Credit(ZeroDelta, r.src, r.amount)

ValidateRefund(p) ==
    /\ pc[p] = "va_refund"
    /\ \/ /\ Apply(p, ValidateRefundDelta(req[p]))
          /\ Goto(p, req[p], "va_fail")
          /\ UNCHANGED <<txs, pis, payouts, iwlog, fraudRules, nreq, ncb>>
       \/ Throws(p)

\* Lines 87-96.
ValidateFail(p) ==
    /\ pc[p] = "va_fail"
    /\ \/ /\ txs' = [txs EXCEPT ![req[p].tx] =
                       [@ EXCEPT !.status = "FAILED", !.reason = "rejected by remote"]]
          /\ Finish(p, req[p], "ok")
          /\ UNCHANGED <<balance, pis, payouts, iwlog, fraudRules, net, nreq, ncb>>
       \/ Throws(p)

(***************************************************************************)
(* The system                                                              *)
(***************************************************************************)
Handler(p) ==
    \/ TransferStart(p)
    \/ TransferFraud(p)
    \/ TransferBlocked(p)
    \/ LocalTransferCommit(p)
    \/ InterDebit(p)
    \/ InterCreate(p)
    \/ InterSend(p)
    \/ InterMarkProcessing(p)
    \/ InterRollback(p)
    \/ InterMarkFailed(p)
    \/ CashoutStart(p)
    \/ CashoutFraud(p)
    \/ CashoutCommit(p)
    \/ PayoutCallback(p)
    \/ WebhookStart(p)
    \/ WebhookCreateIntent(p)
    \/ DepositRead(p)
    \/ DepositMarkFailed(p)
    \/ DepositCommit(p)
    \/ IncomingStart(p)
    \/ IncomingCommit(p)
    \/ ValidateStart(p)
    \/ ValidateAccept(p)
    \/ ValidateRefund(p)
    \/ ValidateFail(p)

\* Request handlers run concurrently, one database call at a time.
Next == \E p \in Procs : Handler(p)

Spec == Init /\ [][Next]_vars

\* Every request runs to completion before the next one starts.
OthersAtRest(p) == \A q \in Procs \ {p} : AtRest(q)

SerialNext == \E p \in Procs : OthersAtRest(p) /\ Handler(p)

SerialSpec == Init /\ [][SerialNext]_vars

\* Cashouts and the payout callbacks of the webhook, one request at a time;
\* the runtime keeps running a handler that has a step to take.
PayoutNext ==
    \E p \in Procs :
        /\ OthersAtRest(p)
        /\ \/ CashoutStart(p)
           \/ CashoutFraud(p)
           \/ CashoutCommit(p)
           \/ PayoutCallback(p)

PayoutLiveSpec == Init /\ [][PayoutNext]_vars /\ WF_vars(PayoutNext)


(***************************************************************************)
(* Library functions called on their own                                   *)
(***************************************************************************)
\* The largest amount, in cents, given to applyPlatformFee.
MaxFeeAmount == 1500

FeeInit ==
    /\ StoreInit
    /\ call \in { [fn |-> "applyPlatformFee", arg |-> a, done |-> FALSE,
                   result |-> [netAmount |-> 0, fee |-> 0]] : a \in 0..MaxFeeAmount }

ApplyPlatformFeeCall ==
    /\ call.fn = "applyPlatformFee"
    /\ ~call.done
    /\ call' = [call EXCEPT !.done = TRUE, !.result = applyPlatformFee(call.arg)]
    /\ UNCHANGED store

FeeSpec == FeeInit /\ [][ApplyPlatformFeeCall]_vars

\* Rule tables an administrator may have stored: scores that sum to 49, 50,
\* 79, 80 and 110 as the amount grows; BLOCK rules between other rules,
\* stored out of priority order; a BLOCK rule that is not active.
ThresholdRules ==
    << Rule("over 100", "AMOUNT_LIMIT", 100, 0, 0, 0, 49, "FLAG", 50),
       Rule("over 200", "AMOUNT_LIMIT", 200, 0, 0, 0, 1, "FLAG", 40),
       Rule("over 300", "AMOUNT_LIMIT", 300, 0, 0, 0, 29, "REVIEW", 30),
       Rule("over 400", "AMOUNT_LIMIT", 400, 0, 0, 0, 1, "FLAG", 20),
       Rule("over 500", "AMOUNT_LIMIT", 500, 0, 0, 0, 30, "REVIEW", 10) >>

BlockRules ==
    << Rule("low", "AMOUNT_LIMIT", 100, 0, 0, 0, 20, "FLAG", 10),
       Rule("block over 1000", "AMOUNT_LIMIT", 1000, 0, 0, 0, 40, "BLOCK", 50),
       Rule("high", "AMOUNT_LIMIT", 100, 0, 0, 0, 30, "REVIEW", 90),
       Rule("block over 2000", "AMOUNT_LIMIT", 2000, 0, 0, 0, 90, "BLOCK", 70) >>

InactiveBlockRules ==
    << [Rule("block over 100", "AMOUNT_LIMIT", 100, 0, 0, 0, 100, "BLOCK", 100)
          EXCEPT !.isActive = FALSE],
       Rule("over 200", "AMOUNT_LIMIT", 200, 0, 0, 0, 60, "REVIEW", 10) >>

FraudRuleSets == {<<>>, SeedRules, ThresholdRules, BlockRules, InactiveBlockRules}

\* The amounts, in euros, of the checked requests.
FraudAmounts == {50, 150, 250, 350, 450, 600, 1500, 2500, 5000, 5001, 10000, 10001, 15000}

\* The user has no transaction today, or one successful transfer of 6000.
FraudHistories ==
    { <<>>,
      << NewTx("TRANSFER", "SUCCESS", "alice", "wA", "wB", Cents(6000), Cents(60),
               30, FALSE, "", NoRef, TRUE) >> }

FraudContexts ==
    { FraudContext(u, Cents(a), "TRANSFER", FALSE, "") : u \in {"alice", "bob"}, a \in FraudAmounts }
    \cup { FraudContext("alice", Cents(a), "INTER_WALLET", TRUE, ExternalUrl) : a \in {50, 250, 6000} }

FraudInit ==
    /\ StoreInit
    /\ fraudRules = <<>>
    /\ call \in { [fn |-> "checkFraud",
                   arg |-> [ctx |-> c, rules |-> rs, history |-> h],
                   done |-> FALSE, result |-> NoFraud] :
                  c \in FraudContexts, rs \in FraudRuleSets, h \in FraudHistories }

CheckFraudCall ==
    /\ call.fn = "checkFraud"
    /\ ~call.done
    /\ call' = [call EXCEPT !.done = TRUE,
                            !.result = checkFraud(call.arg.ctx, call.arg.rules,
                                                  call.arg.history)]
    /\ UNCHANGED store

FraudSpec == FraudInit /\ [][CheckFraudCall]_vars

(***************************************************************************)
(* Properties                                                              *)
(***************************************************************************)
Quiescent == \A p \in Procs : AtRest(p)

\* Handler p has returned result res for a request of kind op.
Completed(p, op, res) == pc[p] = "done" /\ req[p].op = op /\ req[p].res = res

\* Handler p takes the step from label from to its response res.
Responds(p, from, res) == pc[p] = from /\ pc'[p] = "done" /\ req'[p].res = res

LastTx(T) == T[Len(T)]

TxsWithRef(T, ref) == {i \in DOMAIN T : T[i].ref = ref}

\* C1: whenever every request so far has run to completion, one after the
\* other, every wallet balance (the platform wallet's too) is >= 0.
C1_BalancesNonNegative ==
    Quiescent => \A w \in Wallets : balance[w] >= 0

\* C2: two concurrent debiting requests (local transfer or cashout) on the
\* same wallet never both succeed and leave that wallet below zero.
C2_NoConcurrentOverdraft ==
    \A p, q \in Procs :
        ( /\ p # q
          /\ \E op \in {"transfer", "cashout"} : Completed(p, op, "ok")
          /\ \E op \in {"transfer", "cashout"} : Completed(q, op, "ok")
          /\ req[p].src = req[q].src )
        => balance[req[p].src] >= 0

\* C3: the committing step of a local transfer of amount a between
\* same-currency wallets of different users, decided ACCEPTED, takes
\* a + fee(a) from the source, adds a to the destination and fee(a) to the
\* platform wallet, keeps the sum of the three balances, and appends a SUCCESS
\* transaction.
C3_AcceptedLocalTransfer ==
    [][\A p \in Procs :
         LET r == req[p]
             a == r.amount
             f == calculatePlatformFee(a)
         IN  ( /\ Responds(p, "lt_commit", "ok")
               /\ r.fraud.decision = "ACCEPTED"
               /\ Owner(r.src) # Owner(r.dst)
               /\ WalletCurrency(r.src) = WalletCurrency(r.dst) )
             => /\ balance'[r.src] = balance[r.src] - (a + f)
                /\ balance'[r.dst] = balance[r.dst] + a
                /\ balance'[getPlatformWallet] = balance[getPlatformWallet] + f
                /\ balance'[r.src] + balance'[r.dst] + balance'[getPlatformWallet]
                     = balance[r.src] + balance[r.dst] + balance[getPlatformWallet]
                /\ txs' = Append(txs, LastTx(txs'))
                /\ LastTx(txs').type = "TRANSFER"
                /\ LastTx(txs').status = "SUCCESS"
                /\ LastTx(txs').src = r.src
                /\ LastTx(txs').dst = r.dst
                /\ LastTx(txs').amount = a
                /\ LastTx(txs').fee = f
                /\ LastTx(txs').executed
      ]_vars

\* An accepted transfer of 100 euros has been committed: 101 euros left the
\* source, 100 reached the destination, 1 the platform wallet.
C3_Witness ==
    \E p \in Procs :
        /\ Completed(p, "transfer", "ok")
        /\ req[p].fraud.decision = "ACCEPTED"
        /\ req[p].amount = Cents(100)
        /\ Owner(req[p].src) # Owner(req[p].dst)
        /\ net[p][req[p].src] = 0 - Cents(101)
        /\ net[p][req[p].dst] = Cents(100)
        /\ net[p][getPlatformWallet] = Cents(1)

\* C4: whatever the deliveries of the confirmations of one payment and
\* however they interleave, at most one DEPOSIT transaction exists for it
\* (each one credits the wallet and the platform wallet once).
C4_DepositOnce ==
    \A id \in DOMAIN pis :
        Cardinality({i \in DOMAIN txs : txs[i].type = "DEPOSIT" /\ txs[i].pay = id}) <= 1

\* C5: at most one transaction carries a given interWalletRef, and a step of
\* the incoming-transfer handler changes a balance only when no transaction
\* carried its reference before and one does after: the wallet is credited at
\* most once per reference.
C5_IncomingOnce ==
    [][ /\ \A ref \in KnownRefs(txs') : Cardinality(TxsWithRef(txs', ref)) <= 1
        /\ \A p \in Procs :
              (pc[p] = "in_commit" /\ pc'[p] # pc[p] /\ balance' # balance)
              => /\ TxsWithRef(txs, req[p].ref) = {}
                 /\ TxsWithRef(txs', req[p].ref) # {}
                 /\ balance' = [balance EXCEPT ![req[p].dst] = @ + req[p].amount]
      ]_vars

\* A correctly signed delivery was refused or failed while a transaction
\* with its reference is stored: a second delivery of the same reference.
C5_Witness ==
    \E p \in Procs :
        /\ pc[p] = "done"
        /\ req[p].op = "incoming"
        /\ req[p].res # "ok"
        /\ verifySignature(Payload(req[p].ref, req[p].dst, req[p].amount, ""), req[p].sig) = "valid"
        /\ IsActive(req[p].dst)
        /\ TxsWithRef(txs, req[p].ref) # {}

\* C6: once a REJECTED callback has refunded the source of a transaction and
\* recorded the rejection, no step of a later validate callback for that
\* reference changes a balance.
C6_ValidateReplayNoOp ==
    [][\A p \in Procs :
         ( /\ req[p].op = "validate"
           /\ pc[p] \in {"va_accept", "va_refund", "va_fail"}
           /\ pc'[p] # pc[p]
           /\ txs[req[p].tx].src # NoWallet
           /\ txs[req[p].tx].status = "FAILED"
           /\ txs[req[p].tx].reason # "" )
         => balance' = balance
      ]_vars

\* The status state machine of C7.
AllowedNext(status) ==
    CASE status = "PENDING"    -> {"SUCCESS", "REVIEW", "BLOCKED", "FAILED", "PROCESSING"}
      [] status = "PROCESSING" -> {"SUCCESS", "FAILED"}
      [] OTHER                 -> {}

\* C7: every change of a transaction's status is an edge of the state
\* machine; a SUCCESS, FAILED or BLOCKED transaction keeps its status.
C7_StatusMachine ==
    [][\A i \in DOMAIN txs :
         txs'[i].status # txs[i].status
         => txs'[i].status \in AllowedNext(txs[i].status)
      ]_vars

\* C8: a request that ended on an unexpected failure has changed no balance.
C8_FailureChangesNothing ==
    \A p \in Procs :
        (pc[p] = "done" /\ req[p].res \in {"error", "uncaught"}) => net[p] = ZeroDelta

\* C9: an outgoing inter-system transfer whose remote call failed and whose
\* handler has returned has given back to the source and taken back from the
\* platform wallet all it had moved, and its transaction is FAILED.
C9_RemoteFailureRestores ==
    \A p \in Procs :
        (pc[p] = "done" /\ req[p].op = "inter" /\ req[p].arg = "send failed")
        => /\ net[p] = ZeroDelta
           /\ txs[req[p].tx].status = "FAILED"

C11_BlockedMovesNothing ==
    \A p \in Procs :
        req[p].fraud.decision = "BLOCKED"
        => /\ net[p] = ZeroDelta
           /\ pc[p] \in {"tr_blocked", "done"}
           /\ pc[p] = "done" => req[p].res \in {"blocked", "error"}

\* A cashout has been blocked while a blocked outgoing transfer is about to
\* be stored: no balance has moved.
C11_Witness ==
    \E p, q \in Procs :
        /\ Completed(p, "cashout", "blocked")
        /\ req[q].op \in {"transfer", "inter"}
        /\ req[q].fraud.decision = "BLOCKED"
        /\ balance = [w \in Wallets |-> InitBalance(w)]

\* C12: every attempt answered as blocked by the fraud engine is stored as a
\* BLOCKED transaction carrying the fraud score, and the response carries
\* that score.
C12_BlockedIsPersisted ==
    \A p \in Procs :
        (pc[p] = "done" /\ req[p].res = "blocked")
        => /\ req[p].tx \in DOMAIN txs
           /\ txs[req[p].tx].status = "BLOCKED"
           /\ txs[req[p].tx].score = req[p].fraud.score
           /\ req[p].resScore = req[p].fraud.score

\* C13: no exception leaves an entry point: every response is a structured
\* result.
C13_NothingEscapes ==
    \A p \in Procs : pc[p] = "done" => req[p].res # "uncaught"


\* C14: a delivery of an incoming transfer whose reference was processed
\* by an earlier, identical delivery is answered with success.
C14_ReplayIsSuccess ==
    \A p \in Procs :
        ( /\ pc[p] = "done"
          /\ req[p].op = "incoming"
          /\ req[p].tx = 0
          /\ verifySignature(Payload(req[p].ref, req[p].dst, req[p].amount, ""),
                             req[p].sig) = "valid"
          /\ \E i \in TxsWithRef(txs, req[p].ref) :
                txs[i].dst = req[p].dst /\ txs[i].amount = req[p].amount )
        => req[p].res = "ok"

PayoutOps == {"payoutPaid", "payoutFailed"}

\* Handler p takes the first step of a request, of a callback.
Starts(p) == Free(p) /\ nreq' = nreq + 1

StartsCallback(p) == Free(p) /\ ncb' = ncb + 1

\* The status a payout callback leaves on its payout.
PayoutTarget(op) == IF op = "payoutPaid" THEN "paid" ELSE "failed"

C17_FailedPayoutRestores ==
    \A p \in Procs :
        (pc[p] = "done" /\ req[p].op = "payoutFailed" /\ Len(payouts) > 0)
        => /\ \E k \in DOMAIN payouts :
                 /\ payouts[k].status = "failed"
                 /\ txs[payouts[k].tx].status = "FAILED"
           /\ nreq = 1 => balance = [w \in Wallets |-> InitBalance(w)]


\* C18: a correctly signed validate callback naming a transaction in status
\* PROCESSING changes nothing while it looks the transaction up and goes on
\* to the ACCEPTED or the REJECTED branch; the ACCEPTED branch sets the
\* transaction to SUCCESS with its executed timestamp and changes no balance;
\* the REJECTED branch credits the transaction's source wallet by the
\* transaction's amount and no other wallet, then sets the transaction to
\* FAILED with the rejection reason and changes no balance.
C18_ValidateCallback ==
    [][\A p \in Procs :
         /\ ( /\ StartsCallback(p)
              /\ req'[p].op = "validate"
              /\ verifySignature(Payload(req'[p].ref, NoWallet, 0, req'[p].arg),
                                 req'[p].sig) = "valid"
              /\ FindTxByRef(txs, req'[p].ref) # 0
              /\ txs[FindTxByRef(txs, req'[p].ref)].status = "PROCESSING" )
            => /\ UNCHANGED <<balance, txs>>
               /\ req'[p].tx = FindTxByRef(txs, req'[p].ref)
               /\ pc'[p] = IF req'[p].arg = "ACCEPTED" THEN "va_accept"
                           ELSE "va_refund"
         /\ Responds(p, "va_accept", "ok")
            => /\ balance' = balance
               /\ txs' = [txs EXCEPT ![req[p].tx] =
                            [@ EXCEPT !.status = "SUCCESS", !.executed = TRUE]]
         /\ (pc[p] = "va_refund" /\ pc'[p] = "va_fail")
            => /\ txs' = txs
               /\ balance' = [balance EXCEPT ![txs[req[p].tx].src] =
                                @ + txs[req[p].tx].amount]
         /\ Responds(p, "va_fail", "ok")
            => /\ balance' = balance
               /\ txs' = [txs EXCEPT ![req[p].tx] =
                            [@ EXCEPT !.status = "FAILED",
                                      !.reason = "rejected by remote"]]
      ]_vars

\* An outgoing transfer was accepted for processing and then rejected by its
\* callback, one request after the other: the source wallet is short of the
\* fee only and the transaction is FAILED with its reason.
C18_Witness ==
    /\ nreq = 1
    /\ ncb = 1
    /\ pc["h2"] = "idle"
    /\ Completed("h1", "validate", "ok")
    /\ req["h1"].arg = "REJECTED"
    /\ txs[req["h1"].tx].status = "FAILED"
    /\ txs[req["h1"].tx].reason # ""
    /\ txs[req["h1"].tx].fee > 0
    /\ balance[req["h1"].src] = InitBalance(req["h1"].src) - txs[req["h1"].tx].fee
    /\ balance[getPlatformWallet] = InitBalance(getPlatformWallet) + txs[req["h1"].tx].fee


SignedPayload(r) ==
    IF r.op = "validate" THEN Payload(r.ref, NoWallet, 0, r.arg)
    ELSE Payload(r.ref, r.dst, r.amount, "")

\* C20: an incoming transfer or validate request whose signature is not the
\* one of its payload, a signature that is not 64 characters long included,
\* and an incoming transfer whose destination wallet is missing or inactive,
\* ends in the step that receives it, refused (with an error response when
\* the signature has another length), and that step changes no balance and
\* no transaction.
C20_BadRequestRefused ==
    [][\A p \in Procs :
         ( /\ Starts(p) \/ StartsCallback(p)
           /\ req'[p].op \in {"incoming", "validate"}
           /\ \/ req'[p].sig # generateSignature(SignedPayload(req'[p]))
              \/ req'[p].op = "incoming"
                 /\ (req'[p].dst \notin Wallets \/ ~IsActive(req'[p].dst)) )
         => /\ pc'[p] = "done"
            /\ req'[p].res = IF req'[p].sig.len # SIGNATURE_HEX_LENGTH
                             THEN "error" ELSE "rejected"
            /\ UNCHANGED <<balance, txs>>
      ]_vars

C20_Witness ==
    \E p, q \in Procs :
        /\ pc[p] = "done"
        /\ req[p].op = "incoming"
        /\ req[p].sig.len # SIGNATURE_HEX_LENGTH
        /\ req[p].res = "error"
        /\ pc[q] = "done"
        /\ req[q].op = "validate"
        /\ req[q].sig.len = SIGNATURE_HEX_LENGTH
        /\ req[q].sig # generateSignature(SignedPayload(req[q]))
        /\ req[q].res = "rejected"


\* The webhook events that lead to processDeposit.
DepositOps == {"checkout.session.completed", "payment_intent.succeeded"}

C22_SameOwnerNoFee ==
    [][\A p \in Procs :
         ( /\ Responds(p, "lt_commit", "ok")
           /\ req[p].fraud.decision = "ACCEPTED"
           /\ Owner(req[p].src) = Owner(req[p].dst) )
         => balance' = [balance EXCEPT ![req[p].src] = @ - req[p].amount,
                                       ![req[p].dst] = @ + req[p].amount]
      ]_vars


\* The destination of a local transfer request is the source itself, is
\* missing or inactive, or holds another currency than the source.
BadDestination(r) ==
    \/ r.dst = r.src
    \/ ~FindActiveWallet(r.dst)
    \/ WalletCurrency(r.dst) # WalletCurrency(r.src)

\* C23: a local transfer request whose source holds less than amount + fee
\* is rejected by the step that receives it, and no step of a local transfer
\* request with a bad destination changes a balance or creates a
\* transaction; the request ends rejected.
C23_InvalidLocalTransfer ==
    [][\A p \in Procs :
         /\ ( /\ Starts(p)
              /\ req'[p].op = "transfer"
              /\ FindOwnedActiveWallet(req'[p].src, req'[p].user)
              /\ balance[req'[p].src] < TotalDebit(req'[p].amount) )
            => /\ pc'[p] = "done"
               /\ req'[p].res = "rejected"
               /\ UNCHANGED <<balance, txs>>
         /\ ( /\ req[p].op = "transfer"
              /\ BadDestination(req[p])
              /\ ~AtRest(p)
              /\ pc'[p] # pc[p] )
            => /\ UNCHANGED <<balance, txs>>
               /\ pc'[p] = "done" => req'[p].res \in {"rejected", "error"}
      ]_vars


\* C24: every call of sendInterWalletTransfer, whatever the remote system
\* and the network do, adds one OUTGOING record to the inter-wallet log.
C24_OutgoingCallLogged ==
    [][\A p \in Procs :
         (pc[p] = "iw_send" /\ pc'[p] # "iw_send") => iwlog' = iwlog + 1
      ]_vars


\* C28: for every amount from 0 to MaxFeeAmount cents, applyPlatformFee
\* returns as fee one hundredth of the amount rounded half up to the cent,
\* and a netAmount that adds up with the fee to the amount.
C28_FeeHalfUp ==
    (call.fn = "applyPlatformFee" /\ call.done)
    => /\ 100 * call.result.fee <= call.arg + 50
       /\ call.arg + 50 < 100 * (call.result.fee + 1)
       /\ call.result.fee + call.result.netAmount = call.arg


\* The call of checkFraud has returned.
FraudChecked == call.fn = "checkFraud" /\ call.done

\* The active rules of the call, in the order in which they are evaluated.
CallRules == ActiveRules(call.arg.rules)

Triggers(rule) == applyRule(rule, call.arg.ctx, call.arg.history)

\* The positions of the triggered BLOCK rules.
BlockingAt == {i \in DOMAIN CallRules : CallRules[i].action = "BLOCK" /\ Triggers(CallRules[i])}

\* The triggered rules among the first n.
TriggeredUpTo(n) == SelectSeq(SubSeq(CallRules, 1, n), Triggers)

RECURSIVE SumScores(_)
SumScores(rs) == IF rs = <<>> THEN 0 ELSE Head(rs).score + SumScores(Tail(rs))

Names(rs) == [i \in DOMAIN rs |-> rs[i].name]

\* C25: the active rules are taken by descending priority, and when a BLOCK
\* rule triggers, the first one to do so ends the evaluation: the decision
\* is BLOCKED, the score is the sum of the scores of the rules triggered up
\* to it, capped at 100, and appliedRules names exactly those rules.
C25_BlockShortCircuit ==
    FraudChecked
    => /\ \A i, j \in DOMAIN CallRules :
             i < j => CallRules[i].priority >= CallRules[j].priority
       /\ BlockingAt # {}
          => LET b == CHOOSE i \in BlockingAt : \A j \in BlockingAt : i <= j
             IN  /\ call.result.decision = "BLOCKED"
                 /\ call.result.score = Min(SumScores(TriggeredUpTo(b)), 100)
                 /\ call.result.appliedRules = Names(TriggeredUpTo(b))

\* A BLOCK rule of middle priority ended the evaluation with a total below
\* 80; a triggered rule of lower priority is not named.
C25_Witness ==
    /\ FraudChecked
    /\ call.arg.rules = BlockRules
    /\ call.arg.ctx.amount = Cents(1500)
    /\ call.result.decision = "BLOCKED"
    /\ call.result.score = 70
    /\ call.result.appliedRules = <<"high", "block over 1000">>

\* The total of a call in which no BLOCK rule triggers.
FraudTotal ==
    IF Len(CallRules) = 0
    THEN applyBuiltInRules(call.arg.ctx, call.arg.history).score
    ELSE SumScores(TriggeredUpTo(Len(CallRules)))

\* C26: when no BLOCK rule triggers, a total below 50 is decided ACCEPTED, a
\* total from 50 to 79 REVIEW and a total of 80 or more BLOCKED, and the
\* score returned is the total capped at 100, a number from 0 to 100.
C26_DecisionRanges ==
    (FraudChecked /\ BlockingAt = {})
    => /\ call.result.decision =
             (IF FraudTotal < 50 THEN "ACCEPTED"
              ELSE IF FraudTotal < 80 THEN "REVIEW" ELSE "BLOCKED")
       /\ call.result.score = Min(FraudTotal, 100)
       /\ call.result.score \in 0..100

\* A total of exactly 50, without any BLOCK rule, is decided REVIEW.
C26_Witness ==
    /\ FraudChecked
    /\ BlockingAt = {}
    /\ FraudTotal = 50
    /\ call.result.decision = "REVIEW"

\* C27: with no rule stored, HIGH_AMOUNT is applied exactly to the amounts
\* above 5000 and VERY_HIGH_AMOUNT exactly to the amounts above 10000; an
\* amount from above 5000 to 10000 that triggers no other built-in rule
\* scores 30, and every amount above 10000 scores at least 80 and is
\* decided BLOCKED.
C27_BuiltInAmountRules ==
    (FraudChecked /\ call.arg.rules = <<>>)
    => LET amount  == call.arg.ctx.amount
           applied == call.result.appliedRules
           has(n)  == \E i \in DOMAIN applied : applied[i] = n
       IN  /\ has("HIGH_AMOUNT") <=> amount > Cents(5000)
           /\ has("VERY_HIGH_AMOUNT") <=> amount > Cents(10000)
           /\ applied = <<"HIGH_AMOUNT">> => call.result.score = 30
           /\ amount > Cents(10000)
              => /\ call.result.score >= 80
                 /\ call.result.decision = "BLOCKED"

\* An amount of exactly 10000 triggers HIGH_AMOUNT alone.
C27_Witness ==
    /\ FraudChecked
    /\ call.arg.rules = <<>>
    /\ call.arg.ctx.amount = Cents(10000)
    /\ call.result.appliedRules = <<"HIGH_AMOUNT">>
    /\ call.result.score = 30
    /\ call.result.decision = "ACCEPTED"


\* Transaction k is the PENDING withdrawal of a cashout.
PendingWithdrawal(k) ==
    k \in DOMAIN txs /\ txs[k].type = "WITHDRAWAL" /\ txs[k].status = "PENDING"

\* C29: when a payout-paid or payout-failed callback has been handled after
\* the one cashout made so far (every request so far was served by the first
\* handler, whose latest one is the callback), the withdrawal of the cashout
\* is, or eventually becomes, SUCCESS or FAILED.
C29_PendingIsTransient ==
    \A k \in 1..MaxReq :
        ( /\ PendingWithdrawal(k)
          /\ Len(payouts) = 1
          /\ pc["h2"] = "idle"
          /\ pc["h1"] = "done"
          /\ req["h1"].op \in PayoutOps )
        ~> (k \in DOMAIN txs /\ txs[k].status \in {"SUCCESS", "FAILED"})


\* C30: an outgoing inter-system transfer decided REVIEW goes on to the debit
\* as an ACCEPTED one does; whatever the decision, the debit takes amount +
\* fee from the source and adds the fee to the platform wallet, the
\* transaction is created PENDING, the remote call follows, and the
\* responses leave the transaction PROCESSING (sent) or FAILED (not sent);
\* no INTER_WALLET transaction with a source wallet ever has status REVIEW.
C30_InterReviewAsAccepted ==
    [][\A p \in Procs :
         /\ (req[p].op = "inter" /\ pc[p] = "tr_fraud"
             /\ req'[p].fraud.decision \in {"REVIEW", "ACCEPTED"})
            => pc'[p] = "iw_debit"
         /\ (pc[p] = "iw_debit" /\ pc'[p] # "iw_debit")
            => \/ pc'[p] = "done" /\ balance' = balance
               \/ /\ pc'[p] = "iw_create"
                  /\ balance' = [w \in Wallets |->
                        balance[w]
                        - (IF w = req[p].src
                           THEN req[p].amount + calculatePlatformFee(req[p].amount) ELSE 0)
                        + (IF w = getPlatformWallet
                           THEN calculatePlatformFee(req[p].amount) ELSE 0)]
         /\ (pc[p] = "iw_create" /\ pc'[p] # "iw_create")
            => \/ pc'[p] = "done" /\ txs' = txs
               \/ /\ pc'[p] = "iw_send"
                  /\ LastTx(txs').status = "PENDING"
                  /\ LastTx(txs').type = "INTER_WALLET"
         /\ Responds(p, "iw_mark", "ok") => txs'[req[p].tx].status = "PROCESSING"
         /\ Responds(p, "iw_fail", "rejected") => txs'[req[p].tx].status = "FAILED"
         /\ \A i \in DOMAIN txs' :
               (txs'[i].type = "INTER_WALLET" /\ txs'[i].src # NoWallet)
               => txs'[i].status # "REVIEW"
      ]_vars

\* An outgoing transfer decided REVIEW was sent: its source is debited and
\* its transaction is PROCESSING.
C30_Witness ==
    \E p \in Procs :
        /\ Completed(p, "inter", "ok")
        /\ req[p].fraud.decision = "REVIEW"
        /\ txs[req[p].tx].status = "PROCESSING"
        /\ net[p] = Credit(Debit(ZeroDelta, req[p].src, req[p].amount + req[p].fee),
                           getPlatformWallet, req[p].fee)
        /\ req[p].fee > 0

=============================================================================
